---- MODULE Spec2Model ----
\* A model of go-rest/rest (src/rest.go): the ServeMux registry, the handler
\* adapter's per-request lifecycle (middleware chain, instance construction,
\* parameter binding, verb dispatch), the response encoder and serveError.
EXTENDS Integers, Sequences, FiniteSets, TLC

VARIABLES
    heap,      \* backing arrays of []RestFunc slices: a sequence of arrays
    mux,       \* the ServeMux: [middleware |-> its slice header]
    routes,    \* the router's table: <<path, method>> -> the bound handler, or NoRoute
    calls,     \* history: the Handle calls made so far
    panicked,  \* the router panicked on a duplicate registration
    cells,     \* reference-typed data reachable from the prototypes' fields
    pc,        \* per request: the position inside ServeHTTP / handler.handle
    req,       \* per request: the *http.Request (Method is writable by middleware)
    hnd,       \* per request: the handler the router selected
    ctx,       \* per request: the context threaded through the chain
    mwi,       \* per request: the index of the next middleware to run
    impl,      \* per request: the per-request instance built by serve
    ret,       \* per request: what serve returned, [v, err]
    w,         \* per request: the http.ResponseWriter
    trace      \* per request, history: middleware run, binder calls, verb calls

vars == <<heap, mux, routes, calls, panicked, cells, pc, req, hnd, ctx, mwi, impl, ret, w, trace>>

regVars == <<heap, mux, routes, calls, panicked>>

reqVars == <<pc, req, hnd, ctx, mwi, impl, ret, w, trace>>

----------------------------------------------------------------------------
\* Bounds of the model.

\* the most middleware passed to New
MaxGlobals == 1

\* the most spare capacity of the slice passed to New
MaxSpare == 2

\* the most per-route middleware passed to one Handle call
MaxOptions == 1

\* the most Handle calls on one mux
MaxHandles == 2

\* the longest middleware chain of the route a request is served on
MaxChain == 2

----------------------------------------------------------------------------
\* Small universes the inputs are drawn from.

SeqsUpTo(S, n) == UNION {[1..k -> S] : k \in 0..n}

\* net/http's status of a response whose header Write sends implicitly
StatusOK == 200

StatusBadRequest == 400

StatusNotFound == 404

StatusMethodNotAllowed == 405

Verbs == {"GET", "POST", "PUT", "DELETE"}

Methods == Verbs \cup {"PATCH"}

Capabilities == {"Getter", "Poster", "Putter", "Deleter"}

Paths == {"/a", "/:name"}

\* The RestFunc values of the model and what each does when called.
RestFuncs == {"mwTag", "mwDeny", "mwFail", "mwOverride"}

NilFunc == "nil"

NoRoute == [id |-> 0]

NilErr == [kind |-> "nil", Err |-> <<>>, StatusCode |-> 0]

----------------------------------------------------------------------------
\* Go slices of RestFunc: a header [arr, len] over a backing array of heap.
\* arr = 0 is the nil slice.

NilSlice == [arr |-> 0, len |-> 0]

Cap(hp, s) == IF s.arr = 0 THEN 0 ELSE Len(hp[s.arr])

Elems(hp, s) == [i \in 1..s.len |-> hp[s.arr][i]]

\* runtime.growslice for 8-byte elements: double (or take what is needed),
\* then round up to the allocator's size class.
RoundUpCap(n) ==
    IF n <= 4 THEN n
    ELSE IF n <= 6 THEN 6
    ELSE IF n <= 8 THEN 8
    ELSE n + (n % 2)

GrowCap(old, needed) == RoundUpCap(IF needed > 2 * old THEN needed ELSE 2 * old)

\* A mutant of GoAppend: always reallocates, never writes into spare capacity.
GoAppendAlwaysCopies(hp, s, xs) ==
    IF Len(xs) = 0 THEN [heap |-> hp, slice |-> s]
    ELSE LET n == s.len + Len(xs)
             c == GrowCap(Cap(hp, s), n)
             arr == [i \in 1..c |-> IF i <= s.len THEN hp[s.arr][i]
                                    ELSE IF i <= n THEN xs[i - s.len]
                                    ELSE NilFunc]
         IN [heap |-> Append(hp, arr), slice |-> [arr |-> Len(hp) + 1, len |-> n]]

\* append(s, xs...): in place when the capacity suffices, else a new array.
GoAppend(hp, s, xs) ==
    IF Len(xs) = 0 THEN [heap |-> hp, slice |-> s]
    ELSE IF s.len + Len(xs) <= Cap(hp, s)
    THEN [heap |-> [hp EXCEPT ![s.arr] =
                       [i \in 1..Len(hp[s.arr]) |->
                           IF i > s.len /\ i <= s.len + Len(xs)
                           THEN xs[i - s.len] ELSE hp[s.arr][i]]],
          slice |-> [arr |-> s.arr, len |-> s.len + Len(xs)]]
    ELSE GoAppendAlwaysCopies(hp, s, xs)

----------------------------------------------------------------------------
\* Handler prototypes. A prototype is the value passed to Handle:
\*   held  : "ptr" (a non-nil pointer), "nilptr" (a typed nil pointer), "val"
\*   shape : "struct" or "slice" (the pointed-to or held type)
\*   caps  : the capability interfaces its method set satisfies
\*   beh   : what its verb methods do (the user's code)
\*   val   : the stored value: a struct [Name, Ref] or a sequence of structs

ZeroStruct == [Name |-> "", Ref |-> 0]

ZeroOf(shape) == IF shape = "slice" THEN <<>> ELSE ZeroStruct

Proto(held, shape, caps, beh, val) ==
    [held |-> held, shape |-> shape, caps |-> caps, beh |-> beh, val |-> val]

----------------------------------------------------------------------------
\* New and ServeMux.Handle.

\* New(options...): the mux keeps the caller's slice, spare capacity included.
New(options, spare) ==
    IF Len(options) = 0 /\ spare = 0
    THEN [heap |-> <<>>, mux |-> [middleware |-> NilSlice]]
    ELSE [heap |-> << [i \in 1..(Len(options) + spare) |->
                          IF i <= Len(options) THEN options[i] ELSE NilFunc] >>,
          mux |-> [middleware |-> [arr |-> 1, len |-> Len(options)]]]

\* The verbs a value is registered for, in the order Handle tests them.
VerbOrder == <<"GET", "POST", "PUT", "DELETE">>

CapOrder == <<"Getter", "Poster", "Putter", "Deleter">>

\* A mutant of Implements: every value passes the Poster test when it is a Putter.
ImplementsPosterAsPutter(v, cap) ==
    IF cap = "Poster" THEN "Putter" \in v.caps ELSE cap \in v.caps

\* v.(Getter), v.(Poster), ...: the dynamic type assertion on the method set.
Implements(v, cap) == cap \in v.caps

\* The router registers k-th verb of VerbOrder for h, or panics on a duplicate.
RECURSIVE Register(_, _, _, _, _)
Register(rt, path, h, v, k) ==
    IF k > Len(VerbOrder) THEN [routes |-> rt, panicked |-> FALSE]
    ELSE IF ~Implements(v, CapOrder[k]) THEN Register(rt, path, h, v, k + 1)
    ELSE IF rt[<<path, VerbOrder[k]>>] # NoRoute THEN [routes |-> rt, panicked |-> TRUE]
    ELSE Register([rt EXCEPT ![<<path, VerbOrder[k]>>] = h], path, h, v, k + 1)

\* The registry a Handle call leaves: st = [heap, mux, routes, calls, panicked].
HandleResult(st, path, v, options) ==
    LET a == GoAppend(st.heap, st.mux.middleware, options)
        h == [id |-> Len(st.calls) + 1, impl |-> v, middleware |-> a.slice]
        g == Register(st.routes, path, h, v, 1)
    IN [heap |-> a.heap, mux |-> st.mux, routes |-> g.routes, panicked |-> g.panicked,
        calls |-> Append(st.calls,
                    [path |-> path, v |-> v, panicked |-> g.panicked,
                     chain |-> Elems(st.heap, st.mux.middleware) \o options])]

Registry == [heap |-> heap, mux |-> mux, routes |-> routes, calls |-> calls,
             panicked |-> panicked]

\* mux.Handle(path, v, options...)
Handle(path, v, options) ==
    /\ ~panicked
    /\ Len(calls) < MaxHandles
    /\ LET st == HandleResult(Registry, path, v, options)
       IN /\ heap' = st.heap
          /\ routes' = st.routes
          /\ panicked' = st.panicked
          /\ calls' = st.calls
    /\ UNCHANGED <<mux, cells, reqVars>>

\* The registry right after New(options...), options having `spare` unused capacity.
NewRegistry(options, spare) ==
    [heap |-> New(options, spare).heap, mux |-> New(options, spare).mux,
     routes |-> [k \in Paths \X Methods |-> NoRoute], calls |-> <<>>, panicked |-> FALSE]

InRegistry(st) ==
    /\ heap = st.heap
    /\ mux = st.mux
    /\ routes = st.routes
    /\ calls = st.calls
    /\ panicked = st.panicked

----------------------------------------------------------------------------
\* The registration phase on its own: a mux from New, then Handle calls.

MuxFuncs == {"mwTag", "mwDeny"}

MuxPrototypes == {Proto("ptr", "struct", c, "hello", ZeroStruct) : c \in SUBSET Capabilities}

NoRequests == [r \in {} |-> 0]

NoRequestState ==
    /\ cells = <<>>
    /\ pc = NoRequests /\ req = NoRequests /\ hnd = NoRequests /\ ctx = NoRequests
    /\ mwi = NoRequests /\ impl = NoRequests /\ ret = NoRequests /\ w = NoRequests
    /\ trace = NoRequests

InitMux ==
    /\ \E g \in SeqsUpTo(MuxFuncs, MaxGlobals), spare \in 0..MaxSpare :
          InRegistry(NewRegistry(g, spare))
    /\ NoRequestState

NextMux ==
    \E path \in Paths, v \in MuxPrototypes, options \in SeqsUpTo(MuxFuncs, MaxOptions) :
        Handle(path, v, options)

SpecMux == InitMux /\ [][NextMux]_vars

\* Registration with no middleware at all: DefaultServeMux-style muxes from New().
InitRoutes ==
    /\ InRegistry(NewRegistry(<<>>, 0))
    /\ NoRequestState

NextRoutes ==
    \E path \in Paths, v \in MuxPrototypes : Handle(path, v, <<>>)

SpecRoutes == InitRoutes /\ [][NextRoutes]_vars

----------------------------------------------------------------------------
\* Strings, errors and result values. A string is a sequence of tokens, so that
\* concatenation and JSON quoting change it.

\* NewStatusError(err, statusCode)
NewStatusError(msg, code) == [kind |-> "StatusError", Err |-> msg, StatusCode |-> code]

\* any other error value: errors.New, fmt.Errorf, a codec's error
PlainError(msg) == [kind |-> "error", Err |-> msg, StatusCode |-> 0]

\* StatusError.Error()
ErrorText(err) == err.Err

\* A result value by dynamic type: "nil", "bytes", "string", "struct" (JSON only),
\* "proto" (a proto.Message), "protoBad" (a proto.Message Marshal rejects),
\* "chan" (a value encoding/json rejects).
Value(type, data) == [type |-> type, data |-> data]

NilValue == Value("nil", <<>>)

IsProtoMessage(v) == v.type \in {"proto", "protoBad"}

\* json.Encoder.Encode's output for v: the encoding and a newline.
JSONBytes(v) ==
    CASE v.type = "nil" -> <<"null", "\n">>
      [] v.type = "string" -> <<"\"">> \o v.data \o <<"\"", "\n">>
      [] v.type = "bytes" -> <<"\"base64:">> \o v.data \o <<"\"", "\n">>
      [] OTHER -> <<"{">> \o v.data \o <<"}", "\n">>

\* proto.Marshal's output for a message
ProtoBytes(v) == <<"pb(">> \o v.data \o <<")">>

\* json.Encoder.Encode(herr): StatusError's tagged fields
JSONStatusError(herr) ==
    <<"{\"message\":\"">> \o herr.Err
        \o <<"\",\"statusCode\":", ToString(herr.StatusCode), "}", "\n">>

----------------------------------------------------------------------------
\* http.ResponseWriter: the header map, the status line (0: not yet sent), the
\* header as it was sent with the status line, and the body.

NoHeader == [ct |-> "", acao |-> ""]

NewWriter == [header |-> NoHeader, status |-> 0, sent |-> NoHeader, body |-> <<>>]

WriteHeader(wr, code) ==
    IF wr.status # 0 THEN wr ELSE [wr EXCEPT !.status = code, !.sent = wr.header]

Write(wr, b) == [WriteHeader(wr, StatusOK) EXCEPT !.body = @ \o b]

\* A mutant of serveError: the status line is always 400.
ServeErrorAlways400(wr, err) ==
    LET herr == IF err.kind = "StatusError" THEN err
                ELSE NewStatusError(ErrorText(err), StatusBadRequest)
    IN Write(WriteHeader(wr, StatusBadRequest), JSONStatusError(herr))

\* serveError(w, err)
ServeError(wr, err) ==
    LET herr == IF err.kind = "StatusError" THEN err
                ELSE NewStatusError(ErrorText(err), StatusBadRequest)
    IN Write(WriteHeader(wr, herr.StatusCode), JSONStatusError(herr))

\* json.NewEncoder(w).Encode(v) and the serveError that follows its failure
EncodeJSON(wr, v) ==
    IF v.type # "chan" THEN Write(wr, JSONBytes(v))
    ELSE ServeError(wr, PlainError(<<"json: unsupported type">>))

\* strings.ToLower on one token of the Accept header
ToLower(tok) ==
    CASE tok = "Application/X-Protobuf" -> "application/x-protobuf"
      [] tok = "APPLICATION/JSON" -> "application/json"
      [] OTHER -> tok

\* strings.Contains(a, "application/x-protobuf") on a lower-cased header
ContainsProtobuf(a) ==
    \E i \in 1..Len(a) : a[i] \in {"application/x-protobuf", "application/x-protobuf;q=0.9"}

\* A mutant of UseProto: the Accept header is matched without lower-casing it.
UseProtoCaseSensitive(accept) == ContainsProtobuf(accept)

UseProto(accept) == ContainsProtobuf([i \in 1..Len(accept) |-> ToLower(accept[i])])

\* A mutant of Respond: a string result goes through the JSON encoder.
RespondStringAsJSON(wr, v, err, accept) ==
    IF err # NilErr THEN ServeError(wr, err)
    ELSE IF v.type = "bytes" THEN Write(wr, v.data)
    ELSE IF ~UseProto(accept) \/ ~IsProtoMessage(v) THEN EncodeJSON(wr, v)
    ELSE IF v.type = "protoBad" THEN ServeError(wr, PlainError(<<"proto: marshal failed">>))
    ELSE Write([wr EXCEPT !.header.ct = "application/x-protobuf"], ProtoBytes(v))

\* The tail of handler.handle: the error path and the response encoder.
Respond(wr, v, err, accept) ==
    IF err # NilErr THEN ServeError(wr, err)
    ELSE IF v.type = "bytes" THEN Write(wr, v.data)
    ELSE IF v.type = "string" THEN Write(wr, v.data)
    ELSE IF ~UseProto(accept) THEN EncodeJSON(wr, v)
    ELSE IF ~IsProtoMessage(v) THEN EncodeJSON(wr, v)
    ELSE IF v.type = "protoBad" THEN ServeError(wr, PlainError(<<"proto: marshal failed">>))
    ELSE Write([wr EXCEPT !.header.ct = "application/x-protobuf"], ProtoBytes(v))

----------------------------------------------------------------------------
\* The collaborators the handler calls: middleware functions, the parameter
\* binder and the user's verb methods.

Names == {"Alice"}

Shapes == {"object", "list", "malformed"}

AcceptHeaders ==
    { <<>>, <<"APPLICATION/JSON">>, <<"Application/X-Protobuf">>,
      <<"application/json", "application/x-protobuf;q=0.9">> }

Background == <<>>

\* What calling the RestFunc fn with (c, rq) can return: [ctx, err, req].
MwCall(fn, c, rq) ==
    CASE fn = "mwTag" -> {[ctx |-> Append(c, "mwTag"), err |-> NilErr, req |-> rq]}
      [] fn = "mwDeny" ->
            {[ctx |-> c, err |-> NewStatusError(<<"denied">>, 403), req |-> rq]}
      [] fn = "mwFail" ->
            {[ctx |-> Background, err |-> PlainError(<<"mw failed">>), req |-> rq]}
      [] fn = "mwOverride" ->
            {[ctx |-> c, err |-> NilErr, req |-> [rq EXCEPT !.Method = m]] :
                m \in {"POST", "PATCH"}}
      [] OTHER -> {}

\* httprequest.Unmarshal(params, target): the outcomes [ok, val, err] of binding
\* the request into a target of the given shape currently holding val.
Unmarshal(rq, shape, val) ==
    LET failed == [ok |-> FALSE, val |-> val, err |-> PlainError(<<"bind: ", rq.Shape>>)]
    IN IF shape = "struct"
       THEN IF rq.Shape = "object"
            THEN {[ok |-> TRUE, val |-> [val EXCEPT !.Name = rq.Name], err |-> NilErr]}
            ELSE {failed}
       ELSE IF rq.Shape = "list"
            THEN {[ok |-> TRUE, val |-> <<[ZeroStruct EXCEPT !.Name = rq.Name]>>,
                   err |-> NilErr]}
       ELSE IF rq.Shape = "object" /\ Len(val) = 1
            THEN {failed,
                  [ok |-> TRUE, val |-> <<[val[1] EXCEPT !.Name = rq.Name]>>, err |-> NilErr]}
       ELSE {failed}

\* The Name field a verb method reads from its receiver.
NameOf(shape, val) ==
    IF shape = "slice" THEN (IF Len(val) > 0 THEN val[1].Name ELSE "") ELSE val.Name

RefOf(shape, val) ==
    IF shape = "slice" THEN (IF Len(val) > 0 THEN val[1].Ref ELSE 0) ELSE val.Ref

\* The (value, error) pairs a verb method of behaviour "any" may return.
VerbReturns ==
    { <<Value("bytes", <<"raw">>), NilErr>>,
      <<Value("string", <<"text">>), NilErr>>,
      <<Value("struct", <<"\"id\":1">>), NilErr>>,
      <<Value("proto", <<"\"id\":1">>), NilErr>>,
      <<Value("protoBad", <<"\"id\":1">>), NilErr>>,
      <<Value("chan", <<>>), NilErr>>,
      <<NilValue, NilErr>>,
      <<NilValue, NewStatusError(<<"not found">>, 404)>>,
      <<Value("struct", <<"\"id\":1">>), PlainError(<<"boom">>)>> }

\* The verb method's name for an HTTP method, and the capability that carries it.
VerbMethod(m) ==
    CASE m = "GET" -> "Get" [] m = "POST" -> "Post" [] m = "PUT" -> "Put"
      [] m = "DELETE" -> "Delete" [] OTHER -> "none"

\* A mutant of CapabilityOf: PUT is checked against Poster.
CapabilityOfPutAsPoster(m) ==
    CASE m = "GET" -> "Getter" [] m = "POST" -> "Poster" [] m = "PUT" -> "Poster"
      [] m = "DELETE" -> "Deleter" [] OTHER -> "none"

CapabilityOf(m) ==
    CASE m = "GET" -> "Getter" [] m = "POST" -> "Poster" [] m = "PUT" -> "Putter"
      [] m = "DELETE" -> "Deleter" [] OTHER -> "none"

\* What the user's verb method does on receiver (shape, val) in request rid:
\* the outcomes [v, err, cells, saw], saw naming the request whose write it read.
\*   "hello"    : HelloReq.Get, "Hello " + h.Name
\*   "any"      : any result of VerbReturns
\*   "remember" : Post/Put store h.Name through the reference field h.Ref,
\*                Get/Delete return what h.Ref holds
VerbCall(beh, name, shape, val, cl, rid) ==
    LET hello == [v |-> Value("string", <<"Hello ", NameOf(shape, val)>>),
                  err |-> NilErr, cells |-> cl, saw |-> 0]
        ref == RefOf(shape, val)
    IN CASE beh = "any" ->
              {[v |-> x[1], err |-> x[2], cells |-> cl, saw |-> 0] : x \in VerbReturns}
         [] beh = "remember" /\ ref # 0 /\ name \in {"Post", "Put"} ->
              {[v |-> Value("string", <<"stored">>), err |-> NilErr,
                cells |-> [cl EXCEPT ![ref] = [val |-> NameOf(shape, val), by |-> rid]],
                saw |-> 0]}
         [] beh = "remember" /\ ref # 0 ->
              {[v |-> Value("string", <<"Hello ", cl[ref].val>>), err |-> NilErr,
                cells |-> cl, saw |-> cl[ref].by]}
         [] OTHER -> {hello}

----------------------------------------------------------------------------
\* One request through ServeMux.ServeHTTP and handler.handle.

NoRequest == [Method |-> "", Name |-> "", Shape |-> "", Accept |-> <<>>]

NoInstance == [shape |-> "", val |-> <<>>]

NoReturn == [v |-> NilValue, err |-> NilErr]

NoTrace == [mw |-> <<>>, binds |-> <<>>, fallback |-> FALSE, verbs |-> <<>>]

URI(rq) == <<"/", rq.Name>>

\* mux.router.ServeHTTP: the router selects the handler bound to the request's
\* method on the pattern that matches the request's path.
Lookup(rt, rq) == rt[<<"/:name", rq.Method>>]

\* ServeHTTP up to the first middleware: the router's lookup, then handle's
\* prologue (ParseForm, the empty context, the two fixed headers).
ServeHTTP(r) ==
    /\ pc[r] = "idle"
    /\ \E m \in Methods, n \in Names, sh \in Shapes, a \in AcceptHeaders :
          LET rq == [Method |-> m, Name |-> n, Shape |-> sh, Accept |-> a]
              h == Lookup(routes, rq)
          IN /\ req' = [req EXCEPT ![r] = rq]
             /\ hnd' = [hnd EXCEPT ![r] = h]
             /\ IF h = NoRoute
                THEN /\ \E code \in {StatusNotFound, StatusMethodNotAllowed} :
                          w' = [w EXCEPT ![r] = WriteHeader(NewWriter, code)]
                     /\ pc' = [pc EXCEPT ![r] = "done"]
                ELSE /\ w' = [w EXCEPT ![r] =
                              [NewWriter EXCEPT
                                  !.header = [ct |-> "application/json; charset=utf-8",
                                              acao |-> "*"]]]
                     /\ pc' = [pc EXCEPT ![r] = "chain"]
    /\ ctx' = [ctx EXCEPT ![r] = Background]
    /\ mwi' = [mwi EXCEPT ![r] = 1]
    /\ UNCHANGED <<regVars, cells, impl, ret, trace>>

\* A mutant of Middleware: a middleware's error is reported but the loop goes on.
MiddlewareKeepsGoing(r) ==
    /\ pc[r] = "chain"
    /\ mwi[r] <= hnd[r].middleware.len
    /\ LET fn == heap[hnd[r].middleware.arr][mwi[r]]
       IN \E out \in MwCall(fn, ctx[r], req[r]) :
             /\ ctx' = [ctx EXCEPT ![r] = out.ctx]
             /\ req' = [req EXCEPT ![r] = out.req]
             /\ trace' = [trace EXCEPT ![r].mw =
                             Append(@, [fn |-> fn, ctx |-> ctx[r], out |-> out.ctx,
                                        err |-> out.err])]
             /\ w' = IF out.err # NilErr THEN [w EXCEPT ![r] = ServeError(@, out.err)] ELSE w
             /\ mwi' = [mwi EXCEPT ![r] = @ + 1]
             /\ pc' = pc
    /\ UNCHANGED <<regVars, cells, hnd, impl, ret>>

\* One iteration of handle's loop over h.middleware.
Middleware(r) ==
    /\ pc[r] = "chain"
    /\ mwi[r] <= hnd[r].middleware.len
    /\ LET fn == heap[hnd[r].middleware.arr][mwi[r]]
       IN \E out \in MwCall(fn, ctx[r], req[r]) :
             /\ ctx' = [ctx EXCEPT ![r] = out.ctx]
             /\ req' = [req EXCEPT ![r] = out.req]
             /\ trace' = [trace EXCEPT ![r].mw =
                             Append(@, [fn |-> fn, ctx |-> ctx[r], out |-> out.ctx,
                                        err |-> out.err])]
             /\ IF out.err # NilErr
                THEN /\ w' = [w EXCEPT ![r] = ServeError(@, out.err)]
                     /\ pc' = [pc EXCEPT ![r] = "done"]
                     /\ mwi' = mwi
                ELSE /\ mwi' = [mwi EXCEPT ![r] = @ + 1]
                     /\ UNCHANGED <<w, pc>>
    /\ UNCHANGED <<regVars, cells, hnd, impl, ret>>

\* serve's instance construction: a pointer prototype is duplicated (shallowly)
\* or, when nil, replaced by a zero value; any other prototype is used as it is.
Construct(r) ==
    /\ pc[r] = "chain"
    /\ mwi[r] > hnd[r].middleware.len
    /\ LET p == hnd[r].impl
       IN /\ impl' = [impl EXCEPT ![r] =
                 [shape |-> p.shape,
                  val |-> IF p.held = "nilptr" THEN ZeroOf(p.shape) ELSE p.val]]
          /\ pc' = [pc EXCEPT ![r] = IF p.held = "val" THEN "dispatch" ELSE "bind"]
    /\ UNCHANGED <<regVars, cells, req, hnd, ctx, mwi, ret, w, trace>>

\* serve's parameter binding, with the retry for a slice-shaped instance.
Bind(r) ==
    /\ pc[r] = "bind"
    /\ LET isSlice == impl[r].shape = "slice"
       IN \E o1 \in Unmarshal(req[r], impl[r].shape, impl[r].val) :
             IF o1.ok
             THEN /\ impl' = [impl EXCEPT ![r].val = o1.val]
                  /\ trace' = [trace EXCEPT ![r].binds = Append(@, TRUE)]
                  /\ pc' = [pc EXCEPT ![r] = "dispatch"]
                  /\ ret' = ret
             ELSE IF ~isSlice
             THEN /\ ret' = [ret EXCEPT ![r] = [v |-> NilValue, err |-> o1.err]]
                  /\ trace' = [trace EXCEPT ![r].binds = Append(@, FALSE)]
                  /\ pc' = [pc EXCEPT ![r] = "encode"]
                  /\ impl' = impl
             ELSE LET one == <<ZeroStruct>>
                      z == ZeroStruct
                  IN \E o2 \in Unmarshal(req[r], impl[r].shape, one) :
                        IF ~o2.ok
                        THEN /\ ret' = [ret EXCEPT ![r] = [v |-> NilValue, err |-> o2.err]]
                             /\ trace' = [trace EXCEPT ![r].binds = @ \o <<FALSE, FALSE>>]
                             /\ pc' = [pc EXCEPT ![r] = "encode"]
                             /\ impl' = [impl EXCEPT ![r].val = one]
                        ELSE /\ impl' = [impl EXCEPT ![r].val = [o2.val EXCEPT ![1] = z]]
                             /\ trace' = [trace EXCEPT ![r].binds = @ \o <<FALSE, TRUE>>,
                                                       ![r].fallback = TRUE]
                             /\ pc' = [pc EXCEPT ![r] = "dispatch"]
                             /\ ret' = ret
    /\ UNCHANGED <<regVars, cells, req, hnd, ctx, mwi, w>>

\* serve's switch on the request's method and the verb method it calls.
Dispatch(r) ==
    /\ pc[r] = "dispatch"
    /\ LET m == req[r].Method
           p == hnd[r].impl
       IN IF m \in Verbs /\ Implements(p, CapabilityOf(m))
          THEN \E out \in VerbCall(p.beh, VerbMethod(m), impl[r].shape, impl[r].val, cells, r) :
                  /\ ret' = [ret EXCEPT ![r] = [v |-> out.v, err |-> out.err]]
                  /\ cells' = out.cells
                  /\ trace' = [trace EXCEPT ![r].verbs =
                                  Append(@, [name |-> VerbMethod(m), ctx |-> ctx[r],
                                             recv |-> impl[r].val, saw |-> out.saw])]
          ELSE /\ ret' = [ret EXCEPT ![r] =
                            [v |-> NilValue,
                             err |-> PlainError(<<m, " unsupported method for ">> \o URI(req[r]))]]
               /\ UNCHANGED <<cells, trace>>
    /\ pc' = [pc EXCEPT ![r] = "encode"]
    /\ UNCHANGED <<regVars, req, hnd, ctx, mwi, impl, w>>

\* handle after serve returned: the error path or the response encoder.
Encode(r) ==
    /\ pc[r] = "encode"
    /\ w' = [w EXCEPT ![r] = Respond(@, ret[r].v, ret[r].err, req[r].Accept)]
    /\ pc' = [pc EXCEPT ![r] = "done"]
    /\ UNCHANGED <<regVars, cells, req, hnd, ctx, mwi, impl, ret, trace>>

\* The requests a specification may run; Init says which of them exist.
RequestIds == {1, 2}

Next ==
    \/ \E r \in RequestIds : r \in DOMAIN pc /\ ServeHTTP(r)
    \/ \E r \in RequestIds : r \in DOMAIN pc /\ Middleware(r)
    \/ \E r \in RequestIds : r \in DOMAIN pc /\ Construct(r)
    \/ \E r \in RequestIds : r \in DOMAIN pc /\ Bind(r)
    \/ \E r \in RequestIds : r \in DOMAIN pc /\ Dispatch(r)
    \/ \E r \in RequestIds : r \in DOMAIN pc /\ Encode(r)

----------------------------------------------------------------------------
\* Spec: one request on a route registered by one Handle call on a mux from
\* New(), as in ExampleServeMux_Handle, with up to MaxChain middleware.

Kinds == {<<"ptr", "struct">>, <<"nilptr", "struct">>, <<"ptr", "slice">>,
          <<"nilptr", "slice">>, <<"val", "struct">>, <<"val", "slice">>}

\* Every kind and capability set with verb methods of behaviour "any", and the
\* struct kinds also as HelloReq ("hello").
ReqPrototypes ==
    {Proto(k[1], k[2], c, "any", ZeroOf(k[2])) : k \in Kinds, c \in SUBSET Capabilities}
    \cup {Proto(k[1], k[2], c, "hello", ZeroStruct) :
             k \in {x \in Kinds : x[2] = "struct"}, c \in SUBSET Capabilities}

RequestState(ids) ==
    /\ pc = [r \in ids |-> "idle"]
    /\ req = [r \in ids |-> NoRequest]
    /\ hnd = [r \in ids |-> NoRoute]
    /\ ctx = [r \in ids |-> Background]
    /\ mwi = [r \in ids |-> 1]
    /\ impl = [r \in ids |-> NoInstance]
    /\ ret = [r \in ids |-> NoReturn]
    /\ w = [r \in ids |-> NewWriter]
    /\ trace = [r \in ids |-> NoTrace]

Init ==
    /\ \E o \in SeqsUpTo(RestFuncs, MaxChain), v \in ReqPrototypes :
          InRegistry(HandleResult(NewRegistry(<<>>, 0), "/:name", v, o))
    /\ cells = <<>>
    /\ RequestState({1})

Spec == Init /\ [][Next]_vars

----------------------------------------------------------------------------
\* SpecConc: two requests, in any interleaving, on one route whose prototype is
\* held by reference and holds reference-typed data (cell 1).

InitCell == [val |-> "init", by |-> 0]

ConcPrototypes ==
    {Proto("ptr", "struct", {"Getter", "Poster"}, "remember", [Name |-> "", Ref |-> 1])}

InitConc ==
    /\ \E o \in SeqsUpTo(RestFuncs, MaxOptions), v \in ConcPrototypes :
          InRegistry(HandleResult(NewRegistry(<<>>, 0), "/:name", v, o))
    /\ cells = <<InitCell>>
    /\ RequestState({1, 2})

SpecConc == InitConc /\ [][Next]_vars

----------------------------------------------------------------------------
\* What the properties below read off a state.

Last(q) == q[Len(q)]

\* The JSON envelope of an error response, written out and read back.
Envelope(msg, code) ==
    <<"{\"message\":\"">> \o msg \o <<"\",\"statusCode\":", ToString(code), "}", "\n">>

IsEnvelope(body) ==
    /\ Len(body) >= 5
    /\ body[1] = "{\"message\":\""
    /\ body[Len(body) - 3] = "\",\"statusCode\":"
    /\ body[Len(body) - 1] = "}"
    /\ body[Len(body)] = "\n"

EnvelopeMessage(body) == SubSeq(body, 2, Len(body) - 4)

EnvelopeCode(body) == body[Len(body) - 2]

\* The status an error is reported with.
ExpectedStatus(err) ==
    IF err.kind = "StatusError" THEN err.StatusCode ELSE StatusBadRequest

\* The response is exactly the normalized form of err.
RespondsWith(wr, err) ==
    /\ wr.status = ExpectedStatus(err)
    /\ wr.body = Envelope(err.Err, ExpectedStatus(err))

Handled(r) == pc[r] # "idle" /\ hnd[r] # NoRoute

MwFailed(r) == \E k \in 1..Len(trace[r].mw) : trace[r].mw[k].err # NilErr

BindFailed(r) == trace[r].binds # <<>> /\ ~Last(trace[r].binds)

ExpectedVerb == [GET |-> "Get", POST |-> "Post", PUT |-> "Put", DELETE |-> "Delete"]

ExpectedCapability ==
    [GET |-> "Getter", POST |-> "Poster", PUT |-> "Putter", DELETE |-> "Deleter"]

\* The Accept headers of AcceptHeaders that name the binary media type in any case.
ProtoAccepts ==
    { <<"Application/X-Protobuf">>, <<"application/json", "application/x-protobuf;q=0.9">> }

JSONContentType == "application/json; charset=utf-8"

ProtoContentType == "application/x-protobuf"

----------------------------------------------------------------------------
\* C1: the middleware of a route run one at a time in chain order; once one of
\* them returns an error no later middleware runs, the binder is not called, no
\* verb method runs, and the response is that error, normalized.
C1_MiddlewareErrorAborts ==
    \A r \in DOMAIN pc :
        /\ \A k \in 1..Len(trace[r].mw) :
              /\ k <= hnd[r].middleware.len
              /\ trace[r].mw[k].fn = heap[hnd[r].middleware.arr][k]
        /\ \A k \in 1..Len(trace[r].mw) :
              trace[r].mw[k].err # NilErr =>
                 /\ k = Len(trace[r].mw)
                 /\ trace[r].binds = <<>>
                 /\ trace[r].verbs = <<>>
                 /\ pc[r] = "done"
                 /\ RespondsWith(w[r], trace[r].mw[k].err)

\* C1's case: the second middleware of a chain failed after the first succeeded.
C1_Witness ==
    \E r \in DOMAIN pc :
        /\ Len(trace[r].mw) = 2
        /\ trace[r].mw[1].err = NilErr
        /\ trace[r].mw[2].err # NilErr
        /\ pc[r] = "done"

\* C2: when every middleware and the binding succeeded, exactly one verb method
\* runs, once, the one of the request's method, with the context the last
\* middleware returned (each middleware having received its predecessor's); when
\* the instance lacks the method's capability no verb method runs and the request
\* ends with the unsupported-method error.
C2_ExactlyOneMatchingVerb ==
    \A r \in DOMAIN pc :
        /\ Len(trace[r].verbs) <= 1
        /\ \A k \in 1..Len(trace[r].mw) :
              trace[r].mw[k].ctx = IF k = 1 THEN Background ELSE trace[r].mw[k - 1].out
        /\ (Handled(r) /\ pc[r] \in {"encode", "done"} /\ ~MwFailed(r) /\ ~BindFailed(r)) =>
              LET m == req[r].Method
                  chainCtx == IF trace[r].mw = <<>> THEN Background
                              ELSE Last(trace[r].mw).out
              IN IF m \in Verbs /\ ExpectedCapability[m] \in hnd[r].impl.caps
                 THEN /\ Len(trace[r].verbs) = 1
                      /\ trace[r].verbs[1].name = ExpectedVerb[m]
                      /\ trace[r].verbs[1].ctx = chainCtx
                      /\ Len(trace[r].mw) = hnd[r].middleware.len
                 ELSE /\ trace[r].verbs = <<>>
                      /\ ret[r].err = PlainError(<<m, " unsupported method for ", "/", req[r].Name>>)
                      /\ pc[r] = "done" => RespondsWith(w[r], ret[r].err)

\* C2's case: Delete ran with the context built by a chain of two middleware.
C2_Witness ==
    \E r \in DOMAIN pc :
        /\ pc[r] = "done"
        /\ Len(trace[r].verbs) = 1
        /\ trace[r].verbs[1].name = "Delete"
        /\ trace[r].verbs[1].ctx = <<"mwTag", "mwTag">>

\* The error serveError was called with in a finished request, or NilErr.
ServedError(r) ==
    IF MwFailed(r) THEN Last(trace[r].mw).err
    ELSE IF ret[r].err # NilErr THEN ret[r].err
    ELSE NilErr

\* A finished request whose result value the codec rejected.
EncodingFailed(r) ==
    /\ ~MwFailed(r)
    /\ ret[r].err = NilErr
    /\ \/ ret[r].v.type = "chan"
       \/ ret[r].v.type = "protoBad" /\ req[r].Accept \in ProtoAccepts

\* C3: an error that reaches serveError is answered with its own code and
\* message when it is a StatusError, with 400 and its text otherwise; the status
\* line always equals the statusCode of the JSON envelope.
C3_ErrorsAreNormalized ==
    \A r \in DOMAIN pc :
        (pc[r] = "done" /\ Handled(r)) =>
            /\ ServedError(r) # NilErr =>
                  /\ IsEnvelope(w[r].body)
                  /\ EnvelopeCode(w[r].body) = ToString(w[r].status)
                  /\ EnvelopeMessage(w[r].body) = ServedError(r).Err
                  /\ ServedError(r).kind = "StatusError" =>
                        w[r].status = ServedError(r).StatusCode
                  /\ ServedError(r).kind # "StatusError" => w[r].status = StatusBadRequest
            /\ EncodingFailed(r) =>
                  /\ IsEnvelope(w[r].body)
                  /\ EnvelopeCode(w[r].body) = ToString(w[r].status)
                  /\ w[r].status = StatusBadRequest

\* C3's case: a verb method returned NewStatusError("not found", 404).
C3_Witness ==
    \E r \in DOMAIN pc :
        /\ pc[r] = "done"
        /\ Len(trace[r].verbs) = 1
        /\ ret[r].err = NewStatusError(<<"not found">>, 404)
        /\ w[r].status = 404

\* C4: a successful result is encoded by a fixed priority chain: raw bytes
\* verbatim, else a string verbatim and unquoted, else binary when the lower-cased
\* Accept header names application/x-protobuf and the value is a binary message,
\* else JSON; the Content-Type is application/x-protobuf exactly when the binary
\* branch is taken and succeeds, and Accept never affects bytes and strings.
C4_EncodingPriorityChain ==
    \A r \in DOMAIN pc :
        (pc[r] = "done" /\ Handled(r) /\ ~MwFailed(r) /\ ret[r].err = NilErr) =>
            LET v == ret[r].v
                binary == /\ v.type \notin {"bytes", "string"}
                          /\ req[r].Accept \in ProtoAccepts
                          /\ v.type \in {"proto", "protoBad"}
            IN /\ v.type \in {"bytes", "string"} =>
                     /\ w[r].body = v.data
                     /\ w[r].status = StatusOK
               /\ (binary /\ v.type = "proto") =>
                     /\ w[r].body = <<"pb(">> \o v.data \o <<")">>
                     /\ w[r].status = StatusOK
               /\ (~binary /\ v.type \in {"struct", "proto", "protoBad"}) =>
                     /\ w[r].body = <<"{">> \o v.data \o <<"}", "\n">>
                     /\ w[r].status = StatusOK
               /\ (~binary /\ v.type = "nil") => w[r].body = <<"null", "\n">>
               /\ w[r].sent.ct = ProtoContentType <=> (binary /\ v.type = "proto")
               /\ w[r].sent.ct # ProtoContentType => w[r].sent.ct = JSONContentType
               /\ w[r].sent.acao = "*"

\* C4's case: a binary message answered in binary for an upper-case Accept header.
C4_Witness ==
    \E r \in DOMAIN pc :
        /\ pc[r] = "done"
        /\ ret[r].v.type = "proto"
        /\ req[r].Accept = <<"Application/X-Protobuf">>
        /\ w[r].sent.ct = ProtoContentType

\* C5: a completed Handle(pattern, prototype, ...) call registers the pattern for
\* exactly the verbs whose capability interface the prototype implements, and
\* under no other method or pattern.
C5_RegistersExactlyImplementedVerbs ==
    \A k \in 1..Len(calls) :
        ~calls[k].panicked =>
            {key \in DOMAIN routes : routes[key].id = k}
                = {<<calls[k].path, m>> : m \in {x \in Verbs :
                                                   ExpectedCapability[x] \in calls[k].v.caps}}

\* C5's case: a Getter-and-Deleter prototype and a prototype with no capability
\* were both registered.
C5_Witness ==
    /\ ~panicked
    /\ \E k \in 1..Len(calls) : calls[k].v.caps = {"Getter", "Deleter"}
    /\ \E k \in 1..Len(calls) : calls[k].v.caps = {}

\* No verb method read, through its instance, a write another request made.
NoForeignRead ==
    \A r \in DOMAIN pc :
        \A k \in 1..Len(trace[r].verbs) : trace[r].verbs[k].saw \in {0, r}

\* The data reachable from the stored prototype is as it was registered.
PrototypeDataUnchanged == \A c \in 1..Len(cells) : cells[c] = InitCell

\* C6 (as claimed): no request reads a write another request made through its
\* instance, and the data reachable from the stored prototype is never modified.
C6_NoCrossRequestLeak == NoForeignRead /\ PrototypeDataUnchanged

\* The HelloReq scenario: mux := New(); mux.Handle("/:name", new(HelloReq));
\* GET /Alice, finished.
HelloScenario(r) ==
    /\ pc[r] = "done"
    /\ Handled(r)
    /\ hnd[r].impl = Proto("ptr", "struct", {"Getter"}, "hello", ZeroStruct)
    /\ hnd[r].middleware.len = 0
    /\ req[r] \in [Method : {"GET"}, Name : {"Alice"}, Shape : {"object"},
                   Accept : AcceptHeaders]

\* C7 (as claimed): GET /Alice on HelloReq answers 200 with the JSON-encoded
\* string "Hello Alice", quotes included.
C7_HelloIsJSONQuoted ==
    \A r \in DOMAIN pc :
        HelloScenario(r) =>
            /\ w[r].status = StatusOK
            /\ w[r].body \in {<<"\"", "Hello ", "Alice", "\"">>,
                              <<"\"", "Hello ", "Alice", "\"", "\n">>}

\* C7 (amended): GET /Alice on HelloReq answers 200 with the bytes Hello Alice,
\* written verbatim with no JSON quoting.
C7_HelloIsRaw ==
    \A r \in DOMAIN pc :
        HelloScenario(r) =>
            /\ w[r].status = StatusOK
            /\ w[r].body = <<"Hello ", "Alice">>

\* C7's case: the scenario ran to its end.
C7_Witness == \E r \in DOMAIN pc : HelloScenario(r) /\ Len(trace[r].verbs) = 1

\* C8 (as claimed): after the slice fallback the verb method runs on a
\* one-element sequence whose element carries the request's bound fields; a
\* binding failure on a non-sequence prototype ends the request with no retry.
C8_FallbackKeepsBoundObject ==
    \A r \in DOMAIN pc :
        /\ (trace[r].fallback /\ trace[r].verbs # <<>>) =>
              trace[r].verbs[1].recv = <<[ZeroStruct EXCEPT !.Name = req[r].Name]>>
        /\ (impl[r].shape = "struct" /\ BindFailed(r)) =>
              /\ Len(trace[r].binds) = 1
              /\ trace[r].verbs = <<>>

\* C9 (as claimed): the chain of every registered route is, and stays, the mux's
\* global middleware followed by the route's own, and the global middleware stay
\* what New was given.
C9_ChainsAreStable ==
    \A key \in DOMAIN routes :
        routes[key] # NoRoute =>
            Elems(heap, routes[key].middleware) = calls[routes[key].id].chain

\* C10 (as claimed): whatever way the prototype is held, the binder is applied
\* to the fresh instance before the verb method, which runs on an instance
\* populated from the request; a binding failure ends the request with the
\* binding error and no verb method.
C10_BoundBeforeVerb ==
    \A r \in DOMAIN pc :
        /\ \A k \in 1..Len(trace[r].verbs) :
              /\ trace[r].binds # <<>>
              /\ Last(trace[r].binds)
              /\ NameOf(impl[r].shape, trace[r].verbs[k].recv) = req[r].Name
        /\ BindFailed(r) =>
              /\ trace[r].verbs = <<>>
              /\ pc[r] \in {"encode", "done"}
              /\ ret[r].err.kind = "error"

====
